---- MODULE Spec2Model ----
(***************************************************************************)
(* Model of src/migration.py, the Animal Migration Visualizer script.      *)
(*                                                                         *)
(* One run of the script is: read the CSV (L30/L38), parse the timestamp   *)
(* column (L42), sort by (individual, timestamp) (L45), list the animals   *)
(* (L48), take the multiselect and filter (L54-57), then draw either the   *)
(* static folium map (L64-107) or the animated plotly map (L110-149).      *)
(* Streamlit runs the script again from the top after every widget change. *)
(*                                                                         *)
(* Representation.  A CSV timestamp cell is its civil reading              *)
(* [y, m, d, h]; a cell whose month is not in 1..12 stands for text that   *)
(* pd.to_datetime cannot parse.  A parsed timestamp is the number of hours *)
(* since 1970-01-01T00:00.  A latitude cell is [num, v]: num = FALSE is a  *)
(* cell holding text, which makes the whole column dtype object.  Cells    *)
(* are never empty.  Individual ids are integers (they sort by value).     *)
(* A colour is the tab10 hex string.  A frame label is the civil date      *)
(* [y, m, d] that strftime("%Y-%m-%d") prints.                             *)
(***************************************************************************)
EXTENDS Integers, Sequences, FiniteSets

VARIABLES csv, pc, fault, df, animal_ids, selected_animals, view, time_res,
          zoom_level, color_map, paths, frames

vars == <<csv, pc, fault, df, animal_ids, selected_animals, view, time_res,
          zoom_level, color_map, paths, frames>>

(***************************************************************************)
(* Bounds of the model.                                                    *)
(***************************************************************************)
MaxRows == 3
MaxAnimals == 11
MaxPick == 2

(***************************************************************************)
(* Program constants.                                                      *)
(***************************************************************************)
HoursPerDay == 24
PaletteSize == 10
SliderMin == 1
SliderDefault == 7
SliderMax == 30
ZoomWide == 6
ZoomClose == 10

Tab10 ==
    << "#1f77b4", "#ff7f0e", "#2ca02c", "#d62728", "#9467bd",
       "#8c564b", "#e377c2", "#7f7f7f", "#bcbd22", "#17becf" >>

Min(a, b) == IF a <= b THEN a ELSE b

(***************************************************************************)
(* Calendar: pandas reads and prints proleptic Gregorian dates.            *)
(***************************************************************************)
DaysFromCivil(y, m, d) ==
    LET yy  == IF m <= 2 THEN y - 1 ELSE y
        era == yy \div 400
        yoe == yy - era * 400
        mp  == IF m > 2 THEN m - 3 ELSE m + 9
        doy == (153 * mp + 2) \div 5 + d - 1
        doe == yoe * 365 + yoe \div 4 - yoe \div 100 + doy
    IN  era * 146097 + doe - 719468

CivilFromDays(z) ==
    LET zz  == z + 719468
        era == zz \div 146097
        doe == zz - era * 146097
        yoe == (doe - doe \div 1460 + doe \div 36524 - doe \div 146096) \div 365
        doy == doe - (365 * yoe + yoe \div 4 - yoe \div 100)
        mp  == (5 * doy + 2) \div 153
        d   == doy - (153 * mp + 2) \div 5 + 1
        m   == IF mp < 10 THEN mp + 3 ELSE mp - 9
        y   == yoe + era * 400
    IN  [y |-> IF m <= 2 THEN y + 1 ELSE y, m |-> m, d |-> d]

IsLeap(y) == (y % 4 = 0 /\ y % 100 # 0) \/ y % 400 = 0

DaysInMonth(y, m) ==
    IF m = 2 THEN (IF IsLeap(y) THEN 29 ELSE 28)
    ELSE IF m \in {4, 6, 9, 11} THEN 30 ELSE 31

\* pd.to_datetime accepts the cell
Parseable(c) ==
    /\ c.m \in 1..12
    /\ c.d \in 1..DaysInMonth(c.y, c.m)
    /\ c.h \in 0..(HoursPerDay - 1)

\* pd.to_datetime of one cell: hours since the epoch
ToDatetime(c) == DaysFromCivil(c.y, c.m, c.d) * HoursPerDay + c.h

\* Series.dt.floor(f"{n}D"): multiples of n days counted from the epoch
\* the remainder kept instead of taken away
FloorMod(ts, n) == ts % (n * HoursPerDay)
\* rounding up to the next multiple instead of down
FloorUp(ts, n) ==
    IF ts % (n * HoursPerDay) = 0 THEN ts
    ELSE ts - (ts % (n * HoursPerDay)) + n * HoursPerDay

Floor(ts, n) == ts - (ts % (n * HoursPerDay))

\* Series.dt.strftime("%Y-%m-%d")
Strftime(ts) == CivilFromDays(ts \div HoursPerDay)

(***************************************************************************)
(* Table helpers.                                                          *)
(***************************************************************************)
\* the table right after L42: rows keep their pandas index
ParsedTable(rows) ==
    [i \in 1..Len(rows) |->
        [row |-> i, id |-> rows[i].id, ts |-> ToDatetime(rows[i].ts),
         lat |-> rows[i].lat, lon |-> rows[i].lon]]

KeyLeq(a, b) == a.id < b.id \/ (a.id = b.id /\ a.ts <= b.ts)

\* where a row goes among already sorted rows: after every row whose key
\* is not greater
InsertionPoint(sorted, r) ==
    Cardinality({i \in 1..Len(sorted) : KeyLeq(sorted[i], r)})

\* a sort that puts a row before the rows of equal key
RECURSIVE SortValuesUnstable(_)
SortValuesUnstable(rows) ==
    IF rows = <<>> THEN <<>>
    ELSE LET n    == Len(rows)
             init == SortValuesUnstable(SubSeq(rows, 1, n - 1))
             r    == rows[n]
             k    == Cardinality({i \in 1..Len(init) : ~KeyLeq(r, init[i])})
         IN  SubSeq(init, 1, k) \o <<r>> \o SubSeq(init, k + 1, n - 1)

\* a sort that keeps one row per key
RECURSIVE SortValuesDedup(_)
SortValuesDedup(rows) ==
    IF rows = <<>> THEN <<>>
    ELSE LET n    == Len(rows)
             init == SortValuesDedup(SubSeq(rows, 1, n - 1))
             r    == rows[n]
             k    == InsertionPoint(init, r)
         IN  IF \E i \in 1..Len(init) : init[i].id = r.id /\ init[i].ts = r.ts
             THEN init
             ELSE SubSeq(init, 1, k) \o <<r>> \o SubSeq(init, k + 1, Len(init))

\* df.sort_values([id, timestamp]): stable, ascending
RECURSIVE SortValues(_)
SortValues(rows) ==
    IF rows = <<>> THEN <<>>
    ELSE LET n    == Len(rows)
             init == SortValues(SubSeq(rows, 1, n - 1))
             r    == rows[n]
             k    == InsertionPoint(init, r)
         IN  SubSeq(init, 1, k) \o <<r>> \o SubSeq(init, k + 1, n - 1)

\* Series.unique(): the values in order of first appearance
RECURSIVE Unique(_)
Unique(s) ==
    IF s = <<>> THEN <<>>
    ELSE LET n    == Len(s)
             init == Unique(SubSeq(s, 1, n - 1))
         IN  IF \E i \in 1..Len(init) : init[i] = s[n]
             THEN init ELSE Append(init, s[n])

Range(s) == {s[i] : i \in 1..Len(s)}

\* df["individual-local-identifier"]
Ids(rows) == [i \in 1..Len(rows) |-> rows[i].id]

\* df[df[id].isin(selected_animals)]
IsIn(rows, sel) == SelectSeq(rows, LAMBDA r : r.id \in Range(sel))

\* a mis-filter that keeps the whole table
WholeTable(rows, a) == rows

\* df[df[id] == animal_id]
AnimalData(rows, a) == SelectSeq(rows, LAMBDA r : r.id = a)

\* read_csv gives the latitude column a numeric dtype only if every cell is a number
LatNumeric(rows) == \A i \in 1..Len(rows) : rows[i].lat.num

(***************************************************************************)
(* Static map helpers (L68-104).                                           *)
(***************************************************************************)
\* a palette that cycles instead of being resampled
ColorIndexCycle(i, n) == i % PaletteSize

\* colormaps["tab10"].resampled(n)(i) for the i-th animal, i counted from 0:
\* resampled(n) samples tab10 at linspace(0, 1, n), where a float x picks
\* entry int(x * 10), x = 1 picking the last; calling it with the integer i
\* then picks its i-th entry
ColorIndex(i, n) ==
    IF n <= 1 THEN 0 ELSE Min((PaletteSize * i) \div (n - 1), PaletteSize - 1)

\* {animal_id: to_hex(colors(i)) for i, animal_id in enumerate(animal_ids)}
ColorMap(ids) ==
    [a \in Range(ids) |->
        LET i == CHOOSE k \in 1..Len(ids) : ids[k] = a
        IN  Tab10[ColorIndex(i - 1, Len(ids)) + 1]]

Coord(r) == <<r.lat.v, r.lon>>

\* animal_data[["location-lat", "location-long"]].values.tolist()
Coords(rows) == [i \in 1..Len(rows) |-> Coord(rows[i])]

\* one pass of the loop of L81-104: the polyline and the two markers
PathOf(rows, a, colours) ==
    LET animal_data == AnimalData(rows, a)
        coords      == Coords(animal_data)
        last        == Len(coords)
    IN  [id     |-> a,
         color  |-> colours[a],
         coords |-> coords,
         start  |-> [coord |-> coords[1], ts |-> animal_data[1].ts],
         end    |-> [coord |-> coords[last], ts |-> animal_data[last].ts]]

(***************************************************************************)
(* Animated map helpers (L117-133).                                        *)
(***************************************************************************)
\* the animation_frame value of a row: time_bin printed to the day
FrameLabel(r, n) == Strftime(Floor(r.ts, n))

Position(r) == [row |-> r.row, id |-> r.id, lat |-> r.lat, lon |-> r.lon]

\* plotly express: one frame per distinct animation_frame value, in the
\* order the values first appear in the table; a frame holds its rows
AnimationFrames(rows, n) ==
    LET labels == Unique([i \in 1..Len(rows) |-> FrameLabel(rows[i], n)])
    IN  [k \in 1..Len(labels) |->
            [label     |-> labels[k],
             positions |->
                 LET held == SelectSeq(rows, LAMBDA r : FrameLabel(r, n) = labels[k])
                 IN  [j \in 1..Len(held) |-> Position(held[j])]]]

(***************************************************************************)
(* Inputs.                                                                 *)
(***************************************************************************)
Stamp(y, m, d, h) == [y |-> y, m |-> m, d |-> d, h |-> h]
Num(v) == [num |-> TRUE, v |-> v]
Text == [num |-> FALSE, v |-> 0]
Row(id, ts, lat, lon) == [id |-> id, ts |-> ts, lat |-> lat, lon |-> lon]

SampleStamps ==
    { Stamp(1970, 1, 1, 6), Stamp(1970, 1, 4, 0), Stamp(1970, 1, 9, 18) }

\* rows of two animals: well-formed ones, one with an unparseable
\* timestamp (month 13) and one with text in the latitude cell
SampleRows ==
    { Row(a, t, Num(10 * a + t.d), 20 + a) : a \in {1, 2}, t \in SampleStamps }
    \cup { Row(1, Stamp(1970, 13, 1, 0), Num(11), 21),
           Row(2, Stamp(1970, 1, 4, 0), Text, 22) }

SmallTables == UNION { [1..n -> SampleRows] : n \in 0..MaxRows }

\* n animals with one fix each, listed in descending id order
Herd(n) == [i \in 1..n |-> Row(n + 1 - i, Stamp(1970, 1, 1, 6), Num(i), i)]

\* individual 1 at 2020-01-01 (10,10) and 2020-01-10 (12,12),
\* individual 2 at 2020-01-05 (20,20)
Scenario ==
    << Row(1, Stamp(2020, 1, 1, 0), Num(10), 10),
       Row(1, Stamp(2020, 1, 10, 0), Num(12), 12),
       Row(2, Stamp(2020, 1, 5, 0), Num(20), 20) >>

Tables == SmallTables \cup { Herd(n) : n \in 1..MaxAnimals } \cup { Scenario }

\* what st.sidebar.multiselect can return: the default (every animal, in
\* table order) or animals picked one by one, without repeats
Selections(ids) ==
    { ids } \cup
    { s \in UNION { [1..n -> Range(ids)] : n \in 0..MaxPick } :
        \A i, j \in 1..Len(s) : i # j => s[i] # s[j] }

\* the positions of the slider of L114
Widths == SliderMin..SliderMax

(***************************************************************************)
(* The script.                                                             *)
(***************************************************************************)
Init ==
    /\ csv \in Tables
    /\ pc = "read"
    /\ fault = "none"
    /\ df = <<>>
    /\ animal_ids = <<>>
    /\ selected_animals = <<>>
    /\ view = "none"
    /\ time_res = 0
    /\ zoom_level = 0
    /\ color_map = <<>>
    /\ paths = <<>>
    /\ frames = <<>>

\* L42-48: pd.to_datetime raises on the first cell it cannot parse;
\* otherwise the table is sorted and the animals are listed
PreProcess ==
    /\ pc = "read"
    /\ \/ /\ \E i \in 1..Len(csv) : ~Parseable(csv[i].ts)
          /\ pc' = "raised"
          /\ fault' = "to_datetime: ValueError"
          /\ UNCHANGED <<df, animal_ids>>
       \/ /\ \A i \in 1..Len(csv) : Parseable(csv[i].ts)
          /\ df' = SortValues(ParsedTable(csv))
          /\ animal_ids' = Unique(Ids(df'))
          /\ pc' = "sorted"
          /\ UNCHANGED fault
    /\ UNCHANGED <<csv, selected_animals, view, time_res, zoom_level,
                   color_map, paths, frames>>

\* L54-57: the multiselect and the filter
Select ==
    /\ pc = "sorted"
    /\ \E sel \in Selections(animal_ids) :
          /\ selected_animals' = sel
          /\ df' = IsIn(df, sel)
    /\ pc' = "filtered"
    /\ UNCHANGED <<csv, fault, animal_ids, view, time_res, zoom_level,
                   color_map, paths, frames>>

\* L64-107: the mean of an empty column is NaN, which folium.Map refuses;
\* the mean of a column of dtype object raises
StaticMap ==
    /\ pc = "filtered"
    /\ view' = "Static Map"
    /\ \/ /\ df = <<>>
          /\ pc' = "raised"
          /\ fault' = "folium.Map: ValueError"
          /\ UNCHANGED <<zoom_level, color_map, paths>>
       \/ /\ df # <<>>
          /\ ~LatNumeric(csv)
          /\ pc' = "raised"
          /\ fault' = "mean: TypeError"
          /\ UNCHANGED <<zoom_level, color_map, paths>>
       \/ /\ df # <<>>
          /\ LatNumeric(csv)
          /\ zoom_level' = IF Len(df) > 1 THEN ZoomWide ELSE ZoomClose
          /\ color_map' = ColorMap(animal_ids)
          /\ paths' = [k \in 1..Len(selected_animals) |->
                          PathOf(df, selected_animals[k], color_map')]
          /\ pc' = "done"
          /\ UNCHANGED fault
    /\ UNCHANGED <<csv, df, animal_ids, selected_animals, time_res, frames>>

\* L110-149: the slider, the time bins and the plotly frames
AnimatedMap ==
    /\ pc = "filtered"
    /\ view' = "Animated Map"
    /\ \E n \in Widths :
          /\ time_res' = n
          /\ frames' = AnimationFrames(df, n)
    /\ pc' = "done"
    /\ UNCHANGED <<csv, fault, df, animal_ids, selected_animals, zoom_level,
                   color_map, paths>>

\* a widget change: streamlit runs the script again on the same file
Rerun ==
    /\ pc \in {"done", "raised"}
    /\ pc' = "read"
    /\ fault' = "none"
    /\ df' = <<>>
    /\ animal_ids' = <<>>
    /\ selected_animals' = <<>>
    /\ view' = "none"
    /\ time_res' = 0
    /\ zoom_level' = 0
    /\ color_map' = <<>>
    /\ paths' = <<>>
    /\ frames' = <<>>
    /\ UNCHANGED csv

Next == PreProcess \/ Select \/ StaticMap \/ AnimatedMap \/ Rerun

Spec == Init /\ [][Next]_vars

(***************************************************************************)
(* Vocabulary of the properties.                                           *)
(***************************************************************************)
StaticDone == pc = "done" /\ view = "Static Map"
AnimatedDone == pc = "done" /\ view = "Animated Map"
Grouped == pc \in {"sorted", "filtered", "done"}

\* the instant a frame label denotes: midnight of its day
LabelKey(l) == DaysFromCivil(l.y, l.m, l.d) * HoursPerDay

\* the places (frame, position) holding CSV row i
PlacesOf(i) ==
    { <<k, j>> \in (1..Len(frames)) \X (1..Len(csv)) :
        j <= Len(frames[k].positions) /\ frames[k].positions[j].row = i }

\* the frames as a set of (label, set of positions)
FrameSet == { <<frames[k].label, Range(frames[k].positions)>> : k \in 1..Len(frames) }

RowsOf(a) == { i \in 1..Len(csv) : csv[i].id = a }

Malformed(r) == ~Parseable(r.ts) \/ ~r.lat.num

Date(y, m, d) == [y |-> y, m |-> m, d |-> d]

\* the palette entry (counted from 0) behind a colour
PaletteIndex(c) == (CHOOSE p \in 1..PaletteSize : Tab10[p] = c) - 1

ScenarioRun ==
    /\ csv = Scenario
    /\ AnimatedDone
    /\ time_res = SliderDefault
    /\ Range(selected_animals) = {1, 2}

(***************************************************************************)
(* C1.  The animation frames are emitted in ascending bucket order: each   *)
(* frame's bucket start is strictly later than that of the frame before.   *)
(* The code emits them in order of first appearance in the table sorted by *)
(* (individual, timestamp), so this fails.                                 *)
(***************************************************************************)
C1_FramesAscending ==
    AnimatedDone =>
        \A k \in 1..(Len(frames) - 1) :
            LabelKey(frames[k].label) < LabelKey(frames[k + 1].label)

(***************************************************************************)
(* C2, as stated.  The scenario with a 7-day width yields exactly two      *)
(* frames: 2020-01-01 holding A's first point and B's point, 2020-01-08    *)
(* holding A's second point.                                               *)
(***************************************************************************)
C2_ScenarioAsStated ==
    ScenarioRun =>
        FrameSet =
            { <<Date(2020, 1, 1), { [row |-> 1, id |-> 1, lat |-> Num(10), lon |-> 10],
                                    [row |-> 3, id |-> 2, lat |-> Num(20), lon |-> 20] }>>,
              <<Date(2020, 1, 8), { [row |-> 2, id |-> 1, lat |-> Num(12), lon |-> 12] }>> }

(***************************************************************************)
(* C2, amended.  Buckets are multiples of 7 days counted from 1970-01-01,  *)
(* so the scenario yields exactly three frames: 2019-12-26 holding A's     *)
(* first point, 2020-01-02 holding B's point, 2020-01-09 holding A's       *)
(* second point.                                                           *)
(***************************************************************************)
C2_ScenarioEpochAnchored ==
    ScenarioRun =>
        FrameSet =
            { <<Date(2019, 12, 26), { [row |-> 1, id |-> 1, lat |-> Num(10), lon |-> 10] }>>,
              <<Date(2020, 1, 2), { [row |-> 3, id |-> 2, lat |-> Num(20), lon |-> 20] }>>,
              <<Date(2020, 1, 9), { [row |-> 2, id |-> 1, lat |-> Num(12), lon |-> 12] }>> }

C2_Witness == ScenarioRun /\ Len(frames) = 3

(***************************************************************************)
(* C3.  With animals in the table and none selected, neither view raises   *)
(* and nothing is drawn (the run ends in an explicit empty result).  The   *)
(* static view raises, so this fails.                                      *)
(***************************************************************************)
C3_EmptySelectionNoFault ==
    (animal_ids # <<>> /\ selected_animals = <<>> /\ view # "none") =>
        /\ pc # "raised"
        /\ fault = "none"
        /\ paths = <<>>
        /\ frames = <<>>

(***************************************************************************)
(* C4, as stated.  With more animals than palette entries the colours      *)
(* cycle: the animal at position i (from 0) gets palette entry i mod 10.   *)
(***************************************************************************)
C4_ColoursCycle ==
    (StaticDone /\ Len(animal_ids) > PaletteSize) =>
        \A i \in 1..Len(animal_ids) :
            color_map[animal_ids[i]] = Tab10[((i - 1) % PaletteSize) + 1]

(***************************************************************************)
(* C4, amended.  Every animal of the table gets one tab10 colour, fixed by *)
(* its position in the animal list and the length of the list: the palette *)
(* is resampled over the list, not cycled.  The first animal gets palette  *)
(* entry 0, the last (of two or more) entry 9, the entries never decrease  *)
(* along the list, and up to 10 animals get pairwise different colours.    *)
(* Each path is drawn in its animal's colour.                              *)
(***************************************************************************)
C4_ColoursResampled ==
    StaticDone =>
        LET n == Len(animal_ids)
            idx(i) == PaletteIndex(color_map[animal_ids[i]])
        IN  /\ DOMAIN color_map = Range(animal_ids)
            /\ \A i \in 1..n : color_map[animal_ids[i]] \in Range(Tab10)
            /\ idx(1) = 0
            /\ n >= 2 => idx(n) = PaletteSize - 1
            /\ \A i \in 1..(n - 1) : idx(i) <= idx(i + 1)
            /\ n <= PaletteSize =>
                  \A i, j \in 1..n : i # j => idx(i) # idx(j)
            /\ \A k \in 1..Len(paths) : paths[k].color = color_map[paths[k].id]

C4_Witness ==
    /\ StaticDone
    /\ Len(animal_ids) > PaletteSize
    /\ color_map[animal_ids[PaletteSize + 1]] # Tab10[1]

C6_FinerWidthNoFewerFrames ==
    AnimatedDone =>
        /\ time_res = SliderMin =>
              Len(frames) >= Len(AnimationFrames(df, SliderDefault))
        /\ time_res = SliderDefault =>
              Len(AnimationFrames(df, SliderMin)) >= Len(frames)

C6_Witness ==
    /\ AnimatedDone
    /\ time_res = SliderMin
    /\ Len(frames) = 3
    /\ Len(AnimationFrames(df, SliderDefault)) = 2

(***************************************************************************)
(* C7.  After grouping, every animal's track has non-decreasing            *)
(* timestamps, and its records with equal timestamps keep their input      *)
(* order.  A drawn path follows its track.                                 *)
(***************************************************************************)
C7_TracksMonotoneStable ==
    /\ Grouped =>
          \A a \in Range(animal_ids) :
              LET track == AnimalData(df, a)
              IN  \A i, j \in 1..Len(track) :
                      i < j =>
                          /\ track[i].ts <= track[j].ts
                          /\ track[i].ts = track[j].ts => track[i].row < track[j].row
    /\ StaticDone =>
          \A k \in 1..Len(paths) :
              paths[k].coords = Coords(AnimalData(df, paths[k].id))

C7_Witness ==
    /\ pc = "sorted"
    /\ df # ParsedTable(csv)
    /\ \E i, j \in 1..Len(df) :
          i < j /\ df[i].id = df[j].id /\ df[i].ts = df[j].ts

(***************************************************************************)
(* C8.  Grouping partitions the input: the animal list holds exactly the   *)
(* ids of the CSV rows, each once, and every CSV row is in the track of    *)
(* its own animal exactly once and in no other track.  The static view     *)
(* draws one path per selected animal, as long as that animal's row count. *)
(***************************************************************************)
C8_GroupingPartitions ==
    /\ Grouped =>
          /\ Range(animal_ids) = { csv[i].id : i \in 1..Len(csv) }
          /\ \A i, j \in 1..Len(animal_ids) : i # j => animal_ids[i] # animal_ids[j]
    /\ pc = "sorted" =>
          \A i \in 1..Len(csv) : \A a \in Range(animal_ids) :
              LET track == AnimalData(df, a)
              IN  Cardinality({k \in 1..Len(track) : track[k].row = i}) =
                      IF a = csv[i].id THEN 1 ELSE 0
    /\ StaticDone =>
          /\ Len(paths) = Len(selected_animals)
          /\ \A k \in 1..Len(paths) :
                /\ paths[k].id = selected_animals[k]
                /\ Len(paths[k].coords) = Cardinality(RowsOf(paths[k].id))

C8_Witness ==
    /\ pc = "sorted"
    /\ Len(csv) = MaxRows
    /\ Len(animal_ids) = 2
    /\ \E i, j \in 1..Len(df) :
          i < j /\ df[i].id = df[j].id /\ df[i].ts = df[j].ts

(***************************************************************************)
(* C9.  A selected animal with exactly one record gets a path of one       *)
(* coordinate whose start marker equals its end marker: the coordinate and *)
(* the timestamp of that record.                                           *)
(***************************************************************************)
C9_SinglePointPath ==
    StaticDone =>
        \A k \in 1..Len(paths) :
            \A i \in RowsOf(paths[k].id) :
                RowsOf(paths[k].id) = {i} =>
                    /\ Len(paths[k].coords) = 1
                    /\ paths[k].start = paths[k].end
                    /\ paths[k].coords[1] = <<csv[i].lat.v, csv[i].lon>>
                    /\ paths[k].start =
                          [coord |-> <<csv[i].lat.v, csv[i].lon>>,
                           ts |-> ToDatetime(csv[i].ts)]

C9_Witness ==
    /\ StaticDone
    /\ Len(df) = MaxRows
    /\ Len(paths) = 2
    /\ \E k \in 1..Len(paths) : Cardinality(RowsOf(paths[k].id)) = 1

(***************************************************************************)
(* C10.  A malformed row (unparseable timestamp, text in the latitude      *)
(* cell) never aborts the run as an uncontrolled fault and never reaches   *)
(* the grouped table or a frame.  The code has no normalisation step, so   *)
(* this fails.                                                             *)
(***************************************************************************)
C10_MalformedRowsRejected ==
    \A i \in 1..Len(csv) :
        Malformed(csv[i]) =>
            /\ pc # "raised"
            /\ \A k \in 1..Len(df) : df[k].row # i
            /\ PlacesOf(i) = {}

====
